---- MODULE Spec2Model ----
(***************************************************************************)
(* dotpilot core: layered application of a template tree onto the home     *)
(* directory (ApplyConfigurationsWithOptions), tracking (TrackFile), the   *)
(* conflict scan (detectConflicts) and conflict resolution                 *)
(* (ResolveConflicts), over an explicit model of the file system.          *)
(*                                                                         *)
(* A path is a sequence of segments.  A node of the file system is absent, *)
(* a regular file with its bytes, a symlink with its stored target string, *)
(* or a directory.  A symlink target is compared as the code compares it   *)
(* (string equality) and resolved as the kernel resolves it (a "." segment *)
(* spells the same file with a different string).                          *)
(***************************************************************************)
EXTENDS Integers, Sequences, FiniteSets, TLC

VARIABLES fs,        \* the file system: path -> node
          tracking,  \* currentConfig.TrackingPaths
          now,       \* the wall clock, in seconds
          pc,        \* "idle", or the operation in progress
          call,      \* the operation in progress: arguments, cursor, effects
          hist,      \* completed operations, oldest first
          ind        \* a ProgressIndicator, its caller and its animation goroutine

vars == <<fs, tracking, now, pc, call, hist, ind>>

----------------------------------------------------------------------------
(* Bounds *)

MaxClock == 1        \* seconds the clock can advance
MaxLinkDepth == 2    \* symlinks followed while resolving one path
MaxOps == 2          \* Apply or TrackFile calls in one behaviour
MaxResolves == 1     \* ResolveConflicts calls in one behaviour
MaxPrompts == 2      \* lines after which the prompt is shown again, in one call

----------------------------------------------------------------------------
(* Paths *)

Home == <<"home">>
Root == <<"home", ".dotpilot">>
Hostname == "h"
EnvName == "e"
Ext == <<"home", "ext">>

Stamp(n) == <<"t0", "t1", "t2", "t3", "t4", "t5">>[n + 1]
Stamps == {Stamp(n) : n \in 0..MaxClock}

Join(a, b) == a \o b

BakMark == ".dotpilot.bak"

\* A backup <path>.dotpilot.bak.<stamp> is written as the path followed by the
\* marker and the stamp; it lies in the directory of <path>.
\* backup-both writes <basename>.local.<stamp> next to the template file.
LocalMark == ".local"

IsBackupPath(p) == Len(p) >= 3 /\ p[Len(p) - 1] \in {BakMark, LocalMark}

Parent(p) == IF IsBackupPath(p) THEN SubSeq(p, 1, Len(p) - 3) ELSE SubSeq(p, 1, Len(p) - 1)

HasPrefix(p, q) == Len(q) <= Len(p) /\ SubSeq(p, 1, Len(q)) = q

Rel(base, p) == SubSeq(p, Len(base) + 1, Len(p))

Clean(p) == SelectSeq(p, LAMBDA s : s # ".")

\* Template files of the model, relative to the template root.
TemplateRel ==
    { <<"common", "a">>, <<"common", "d", "a">>,
      <<"envs", EnvName, "a">>,
      <<"machine", Hostname, "a">>, <<"machine", Hostname, "d", "a">> }

TemplateFiles == { Join(Root, r) : r \in TemplateRel }

\* Reserved entries at the root of a tier: a name with the prefix ".git", and README.md.
ReservedNames == { <<".gitignore">>, <<"README.md">> }

ReservedFiles == { Join(Root, <<"common">> \o r) : r \in ReservedNames }

\* The live paths a reserved entry would be linked at, were it applied.
ReservedLive == { Join(Home, r) : r \in ReservedNames }

\* Every file a tier of the model can hold.
TreeFiles == TemplateFiles \cup ReservedFiles

LiveFiles == { Join(Home, <<"a">>), Join(Home, <<"d", "a">>) }
LiveDirs == { Join(Home, <<"d">>) }

BackupPath(p, n) == Join(p, <<BakMark, Stamp(n)>>)

\* The backups the model can hold.  The directory above the home directory is
\* not the user's to write, so no backup of the home directory can be made.
BackupPaths == { BackupPath(p, n) : p \in LiveFiles, n \in 0..MaxClock }

AllPaths == {Home, Ext} \cup LiveDirs \cup LiveFiles \cup TemplateFiles \cup BackupPaths

----------------------------------------------------------------------------
(* Nodes *)

None == [k |-> "none"]
File(c) == [k |-> "file", c |-> c, r |-> TRUE]
Link(t) == [k |-> "link", t |-> t]
Dir(full) == [k |-> "dir", full |-> full]

\* A regular file the process may not read: os.Stat finds it, os.Open fails.
Unreadable(c) == [k |-> "file", c |-> c, r |-> FALSE]

Readable(n) == n.k # "file" \/ n.r

\* The bytes of a file are written as a tuple; a truncated file holds none.
Empty == <<>>

Node(f, p) == IF p \in DOMAIN f THEN f[p] ELSE None

\* os.Lstat: the node at the path itself.
Lstat(f, p) == Node(f, Clean(p))

RECURSIVE Follow(_, _, _)
Follow(f, p, n) ==
    LET q == Clean(p)
    IN  IF Node(f, q).k = "link"
        THEN IF n = 0 THEN <<>> ELSE Follow(f, Node(f, q).t, n - 1)
        ELSE q

\* The path a name resolves to, symlinks followed; <<>> when it resolves to nothing.
Resolve(f, p) == Follow(f, p, MaxLinkDepth)

\* os.Stat: the node the path resolves to.
Stat(f, p) == IF Resolve(f, p) = <<>> THEN None ELSE Node(f, Resolve(f, p))

\* A new entry can be made at p: its parent is a directory.
ParentIsDir(f, p) == Parent(p) \notin DOMAIN f \/ Stat(f, Parent(p)).k = "dir"

HasChildren(f, p) == \E q \in DOMAIN f : q # p /\ Parent(q) = p /\ f[q].k # "none"

----------------------------------------------------------------------------
(* File operations.  Each returns the new file system and whether it failed. *)

Ok(f) == [fs |-> f, err |-> FALSE]
Fail(f) == [fs |-> f, err |-> TRUE]

\* os.Remove: unlinks a file or symlink, removes an empty directory.
Remove(f, p) ==
    LET q == Clean(p)
    IN  IF Node(f, q).k = "none" THEN Fail(f)
        ELSE IF Node(f, q).k = "dir" /\ (Node(f, q).full \/ HasChildren(f, q)) THEN Fail(f)
        ELSE Ok([f EXCEPT ![q] = None])

\* os.Symlink(oldname, newname): newname must not exist; oldname is stored as given.
Symlink(f, oldname, newname) ==
    LET q == Clean(newname)
    IN  IF q \notin DOMAIN f \/ Node(f, q).k # "none" \/ ~ParentIsDir(f, q) THEN Fail(f)
        ELSE Ok([f EXCEPT ![q] = Link(oldname)])

\* os.MkdirAll
MkdirAll(f, p) ==
    LET q == Clean(p)
    IN  IF Stat(f, q).k = "dir" THEN Ok(f)
        ELSE IF Lstat(f, q).k # "none" \/ q \notin DOMAIN f \/ ~ParentIsDir(f, q) THEN Fail(f)
        ELSE Ok([f EXCEPT ![q] = Dir(FALSE)])

\* os.Rename of a non-directory: the node moves, replacing what newpath named.
Rename(f, oldpath, newpath) ==
    LET o == Clean(oldpath)
        n == Clean(newpath)
    IN  IF Node(f, o).k = "none" \/ n \notin DOMAIN f \/ Node(f, n).k = "dir"
           \/ ~ParentIsDir(f, n)
        THEN Fail(f)
        ELSE Ok([f EXCEPT ![n] = f[o], ![o] = None])

\* copyFile that creates the destination and copies nothing into it.
copyFileNoBytes(f, source, destination) ==
    IF Stat(f, source).k = "none" \/ Resolve(f, destination) \notin DOMAIN f
    THEN Fail(f)
    ELSE Ok([f EXCEPT ![Resolve(f, destination)] = File(Empty)])

\* os.OpenFile(O_RDWR|O_CREATE|O_TRUNC) on the file d: it is there, and empty.
openTrunc(f, d) == [f EXCEPT ![d] = File(Empty)]

\* copyFile: open the source, create or truncate the destination, copy the bytes.
copyFile(f, source, destination) ==
    LET d == Resolve(f, destination)
    IN  IF Stat(f, source).k = "none" \/ ~Readable(Stat(f, source)) THEN Fail(f)
        ELSE IF d \notin DOMAIN f \/ Node(f, d).k = "dir" \/ ~Readable(Node(f, d))
                \/ ~ParentIsDir(f, d)
        THEN Fail(f)
        ELSE LET f1 == openTrunc(f, d)
                 src == Stat(f1, source)
             IN  IF src.k = "file"
                 THEN Ok([f1 EXCEPT ![d] = File(src.c)])
                 ELSE Fail(f1)

\* BackupFile: nothing to do when os.Stat finds nothing; else copy to the
\* timestamped name.  t is the second time.Now() falls in.
BackupFile(f, path, t) ==
    IF Stat(f, path).k = "none"
    THEN [fs |-> f, err |-> FALSE, path |-> <<>>]
    ELSE LET r == copyFile(f, path, BackupPath(path, t))
         IN  [fs |-> r.fs, err |-> r.err,
              path |-> IF r.err THEN <<>> ELSE BackupPath(path, t)]

\* FileDiff: both files are read whole; the text is a positional line diff.
FileDiff(f, file1, file2) ==
    IF \/ Stat(f, file1).k # "file" \/ Stat(f, file2).k # "file"
       \/ ~Readable(Stat(f, file1)) \/ ~Readable(Stat(f, file2))
    THEN [err |-> TRUE, diff |-> <<>>]
    ELSE [err |-> FALSE,
          diff |-> IF Stat(f, file1).c = Stat(f, file2).c
                   THEN <<"Files are identical">>
                   ELSE <<"-", Stat(f, file1).c, "+", Stat(f, file2).c>>]

Range(q) == { q[i] : i \in 1..Len(q) }

\* AddTrackingPath without the search for the path: it always appends.
AddTrackingPathAlways(tr, path) == Append(tr, path)

\* AddTrackingPath: append unless already present.
AddTrackingPath(tr, path) == IF path \in Range(tr) THEN tr ELSE Append(tr, path)

----------------------------------------------------------------------------
(* The template tree *)

\* The names filepath.Walk meets below a tier root, in its lexical order.
WalkOrder == << <<".gitignore">>, <<"README.md">>, <<"a">>, <<"d">>, <<"d", "a">> >>

IsTemplateFile(f, p) == p \in TreeFiles /\ Node(f, p).k = "file"

\* A directory of the tree is there through the files below it; no name of
\* the model is a file in one tier and a directory in another.
IsTemplateDir(f, p) ==
    /\ p \notin TreeFiles
    /\ \E q \in TreeFiles : HasPrefix(q, p) /\ Node(f, q).k = "file"

\* filepath.Walk below dir, the root itself left out.
Walk(f, dir) ==
    LET all == [i \in 1..Len(WalkOrder) |-> Join(dir, WalkOrder[i])]
    IN  SelectSeq(all, LAMBDA p : IsTemplateFile(f, p) \/ IsTemplateDir(f, p))

\* strings.HasPrefix(relPath, ".git"), on the names of the model.
GitNames == {".git", ".gitignore", ".gitconfig"}

----------------------------------------------------------------------------
(* Layered application: ApplyConfigurationsWithOptions *)

CommonDir == Join(Root, <<"common">>)
EnvDir(environment) == Join(Root, <<"envs", environment>>)
MachineDir == Join(Root, <<"machine", Hostname>>)

\* The tiers walked machine first, common last.
ApplyDirsMachineFirst(environment) ==
    <<MachineDir>> \o (IF environment # "" THEN <<EnvDir(environment)>> ELSE <<>>)
                   \o <<CommonDir>>

\* The tier roots in the order they are applied; "" is no environment.
ApplyDirs(environment) ==
    <<CommonDir>> \o (IF environment # "" THEN <<EnvDir(environment)>> ELSE <<>>)
                  \o <<MachineDir>>

Entries(f, dir) ==
    LET w == Walk(f, dir) IN [i \in 1..Len(w) |-> [dir |-> dir, path |-> w[i]]]

RECURSIVE Flatten(_, _)
Flatten(f, dirs) ==
    IF dirs = <<>> THEN <<>> ELSE Entries(f, Head(dirs)) \o Flatten(f, Tail(dirs))

\* Every invocation of the walk callback of one run, in order.
ApplyWork(f, environment) == Flatten(f, ApplyDirs(environment))

Skipped(relPath) == relPath[1] \in GitNames \/ relPath = <<"README.md">>

TargetOf(configDir, path) == Join(Home, Rel(configDir, path))

\* The target exists and is not the symlink this entry wants.
NeedsChange(f, configDir, path) ==
    LET target == Lstat(f, TargetOf(configDir, path))
    IN  /\ ~Skipped(Rel(configDir, path))
        /\ IsTemplateFile(f, path)
        /\ target.k # "none"
        /\ ~(target.k = "link" /\ target.t = path)

\* PromptYesNo is reached for this entry.
Prompts(f, configDir, path, diffPrompt) ==
    /\ NeedsChange(f, configDir, path)
    /\ diffPrompt
    /\ Stat(f, TargetOf(configDir, path)).k # "none"
    /\ ~FileDiff(f, TargetOf(configDir, path), path).err

Outcome(f, tr, err, eff, declined) ==
    [fs |-> f, tracking |-> tr, err |-> err, eff |-> eff, declined |-> declined]

\* Create the symlink and register the target in the tracking list.
linkAndTrack(f, tr, path, targetPath, eff) ==
    LET sl == Symlink(f, path, targetPath)
    IN  IF sl.err THEN Outcome(sl.fs, tr, TRUE, eff, FALSE)
        ELSE Outcome(sl.fs, AddTrackingPath(tr, Rel(Home, targetPath)), FALSE,
                     eff \o << <<"symlink", targetPath, path>> >>, FALSE)

\* Back up (when asked), remove the target, then link.
replaceTarget(f, tr, path, targetPath, backup, t) ==
    LET bk == IF backup THEN BackupFile(f, targetPath, t)
              ELSE [fs |-> f, err |-> FALSE, path |-> <<>>]
        e1 == IF bk.path # <<>> THEN << <<"backup", targetPath, bk.path>> >> ELSE <<>>
        rm == Remove(bk.fs, targetPath)
    IN  IF rm.err THEN Outcome(rm.fs, tr, TRUE, e1, FALSE)
        ELSE linkAndTrack(rm.fs, tr, path, targetPath, e1 \o << <<"remove", targetPath>> >>)

\* A declined prompt that ends the walk with an error.
declineFails(f, tr) == Outcome(f, tr, TRUE, <<>>, TRUE)

\* PromptYesNo answered no: the callback logs the skip and returns nil.
declineSkips(f, tr) == Outcome(f, tr, FALSE, <<>>, TRUE)

\* The walk callback of applyConfigDir on one entry below configDir.
applyEntry(f, tr, configDir, path, backup, diffPrompt, answer, t) ==
    LET targetPath == TargetOf(configDir, path)
    IN  IF Skipped(Rel(configDir, path)) THEN Outcome(f, tr, FALSE, <<>>, FALSE)
        ELSE IF ~IsTemplateFile(f, path)
        THEN Outcome(MkdirAll(f, targetPath).fs, tr, MkdirAll(f, targetPath).err, <<>>, FALSE)
        ELSE IF Lstat(f, targetPath).k = "none"
        THEN linkAndTrack(f, tr, path, targetPath, <<>>)
        ELSE IF ~NeedsChange(f, configDir, path) THEN Outcome(f, tr, FALSE, <<>>, FALSE)
        ELSE IF Prompts(f, configDir, path, diffPrompt) /\ ~answer
        THEN declineSkips(f, tr)
        ELSE replaceTarget(f, tr, path, targetPath, backup, t)

\* The walk of one run from its first callback on, every prompt answered yes.
RECURSIVE applyFrom(_, _, _, _, _, _)
applyFrom(f, tr, work, backup, diffPrompt, t) ==
    IF work = <<>> THEN Outcome(f, tr, FALSE, <<>>, FALSE)
    ELSE LET r == applyEntry(f, tr, Head(work).dir, Head(work).path, backup, diffPrompt,
                             TRUE, t)
         IN  IF r.err THEN r
             ELSE applyFrom(r.fs, r.tracking, Tail(work), backup, diffPrompt, t)

\* One uninterrupted run of Apply within the second t.
ApplyConfigurationsWithOptions(f, tr, environment, backup, diffPrompt, t) ==
    applyFrom(f, tr, ApplyWork(f, environment), backup, diffPrompt, t)

\* The file systems a termination inside the callback can leave: nothing done,
\* the backup created and still empty, the backup written, the target removed,
\* the symlink made.
crashPoints(f, tr, configDir, path, backup, diffPrompt, answer, t) ==
    LET targetPath == TargetOf(configDir, path)
        r == applyEntry(f, tr, configDir, path, backup, diffPrompt, answer, t)
        bk == IF backup THEN BackupFile(f, targetPath, t)
              ELSE [fs |-> f, err |-> FALSE, path |-> <<>>]
        torn == IF bk.fs # f
                THEN {openTrunc(f, Resolve(f, BackupPath(targetPath, t)))} ELSE {}
    IN  IF NeedsChange(f, configDir, path) /\ ~r.declined
        THEN {f, bk.fs, Remove(bk.fs, targetPath).fs, r.fs} \cup torn
        ELSE {f, r.fs}

----------------------------------------------------------------------------
(* Initial file systems *)

LiveBytes == <<"live">>
ExtBytes == <<"ext">>

A == Join(Home, <<"a">>)
D == Join(Home, <<"d">>)
DA == Join(Home, <<"d", "a">>)

\* The names os.CreateTemp gives the merge and the edit file.
MergedPath == <<"tmp", "dotpilot-merge">>
EditPath == <<"tmp", "dotpilot-edit">>

\* What a merge tool or an editor saves.
ToolBytes == <<"merged">>

LocalCopyPath(p, n) == Join(p, <<LocalMark, Stamp(n)>>)

\* The same file as p, spelled differently (as a relative or unclean target is).
Alias(p) == <<Head(p), ".">> \o Tail(p)

\* A template file holds, to begin with, bytes that name it.
MkFS(present, a, d, da, ext) ==
    [p \in AllPaths |->
        IF p = Home THEN Dir(TRUE)
        ELSE IF p = Ext THEN ext
        ELSE IF p = A THEN a
        ELSE IF p = D THEN d
        ELSE IF p = DA THEN da
        ELSE IF p \in present THEN File(Rel(Root, p))
        ELSE None]

NoCall == [op |-> "none"]

\* No ProgressIndicator has been created.
NoIndicator == [style |-> "none"]

Idle == /\ tracking = <<>>
        /\ ind = NoIndicator
        /\ now = 0
        /\ pc = "idle"
        /\ call = NoCall
        /\ hist = <<>>

Ticks == {now} \cup (IF now < MaxClock THEN {now + 1} ELSE {})

----------------------------------------------------------------------------
(* Apply, one walk callback at a time *)

ApplyLiveA ==
    { None, File(LiveBytes), Unreadable(LiveBytes), Dir(TRUE),
      Link(Join(Root, <<"common", "a">>)),
      Link(Alias(Join(Root, <<"common", "a">>))),
      Link(Join(Root, <<"machine", Hostname, "a">>)),
      Link(Ext) }

ApplyLiveDA == { None }

ApplyTemplates ==
    { Join(Root, r) : r \in { <<"common", "a">>, <<"common", "d", "a">>,
                               <<"envs", EnvName, "a">>, <<"machine", Hostname, "a">> } }

InitApply ==
    /\ \E present \in SUBSET ApplyTemplates, a \in ApplyLiveA, da \in ApplyLiveDA :
          fs = MkFS(present, a, IF da = None THEN None ELSE Dir(FALSE), da, None)
    /\ Idle

ApplyBegin ==
    /\ pc = "idle"
    /\ Len(hist) < MaxOps
    /\ \E environment \in {"", EnvName}, backup \in BOOLEAN, diffPrompt \in BOOLEAN :
          /\ \A k \in 1..Len(hist) :
                hist[k].op = "apply" => /\ environment = hist[k].environment
                                        /\ backup = hist[k].backup
                                        /\ diffPrompt = hist[k].diffPrompt
          /\ call' = [op |-> "apply", environment |-> environment, backup |-> backup,
                   diffPrompt |-> diffPrompt, i |-> 1, err |-> FALSE, eff |-> <<>>,
                   declined |-> {}, visited |-> <<>>, crashed |-> FALSE,
                   pre |-> fs, preTracking |-> tracking]
    /\ pc' = "apply"
    /\ UNCHANGED <<fs, tracking, now, hist>>
    /\ UNCHANGED ind

ApplyStep ==
    /\ pc = "apply"
    /\ ~call.err
    /\ call.i <= Len(ApplyWork(fs, call.environment))
    /\ LET e == ApplyWork(fs, call.environment)[call.i]
       IN  \E answer \in (IF Prompts(fs, e.dir, e.path, call.diffPrompt)
                           THEN BOOLEAN ELSE {TRUE}),
              t \in (IF NeedsChange(fs, e.dir, e.path) /\ call.backup
                     THEN Ticks ELSE {now}) :
              LET r == applyEntry(fs, tracking, e.dir, e.path, call.backup,
                                  call.diffPrompt, answer, t)
              IN  /\ fs' = r.fs
                  /\ tracking' = r.tracking
                  /\ now' = t
                  /\ call' = [call EXCEPT !.i = @ + 1, !.err = r.err,
                                          !.eff = @ \o r.eff,
                                          !.visited = Append(@, e.path),
                                          !.declined = @ \cup (IF r.declined THEN {e.path}
                                                                ELSE {})]
    /\ UNCHANGED <<pc, hist>>
    /\ UNCHANGED ind

\* The walk is over, or the callback returned an error and filepath.Walk stopped.
ApplyReturn ==
    /\ pc = "apply"
    /\ call.err \/ call.i > Len(ApplyWork(fs, call.environment))
    /\ hist' = Append(hist, [call EXCEPT !.i = 0] @@ [post |-> fs, postTracking |-> tracking])
    /\ pc' = "idle"
    /\ call' = NoCall
    /\ UNCHANGED <<fs, tracking, now>>
    /\ UNCHANGED ind

NextApply == ApplyBegin \/ ApplyStep \/ ApplyReturn

SpecApply == InitApply /\ [][NextApply]_vars

----------------------------------------------------------------------------
(* Apply cut short by the termination of the process, and run again *)

ResumeTemplates == { Join(CommonDir, <<"a">>), Join(MachineDir, <<"a">>) }

InitResume ==
    /\ \E present \in SUBSET ResumeTemplates,
          a \in {None, File(LiveBytes), Link(Join(CommonDir, <<"a">>))} :
          fs = MkFS(present, a, None, None, None)
    /\ Idle

\* The process dies inside, or just before, the callback of the next entry.
Crash ==
    /\ pc = "apply"
    /\ ~call.err
    /\ call.i <= Len(ApplyWork(fs, call.environment))
    /\ LET e == ApplyWork(fs, call.environment)[call.i]
       IN  \E answer \in (IF Prompts(fs, e.dir, e.path, call.diffPrompt)
                           THEN BOOLEAN ELSE {TRUE}),
              t \in (IF NeedsChange(fs, e.dir, e.path) /\ call.backup
                     THEN Ticks ELSE {now}) :
              \E g \in crashPoints(fs, tracking, e.dir, e.path, call.backup,
                                   call.diffPrompt, answer, t) :
                  /\ fs' = g
                  /\ now' = t
                  /\ hist' = Append(hist, [call EXCEPT !.i = 0, !.crashed = TRUE]
                                           @@ [post |-> g, postTracking |-> tracking])
    /\ pc' = "idle"
    /\ call' = NoCall
    /\ UNCHANGED tracking
    /\ UNCHANGED ind

NextResume == ApplyBegin \/ ApplyStep \/ ApplyReturn \/ Crash

SpecResume == InitResume /\ [][NextResume]_vars

----------------------------------------------------------------------------
(* Tracking: TrackFile *)

\* os.Stat finds something at p (a directory of the template tree included).
Exists(f, p) == Stat(f, p).k # "none" \/ IsTemplateDir(f, p)

\* The part of trackSingleFile after the copy: back up a source that is not a
\* symlink by renaming it, link the source to the destination, register it.
linkSource(f, tr, source, destination, t) ==
    LET linkInfo == Lstat(f, source)
        rn == IF linkInfo.k \notin {"none", "link"}
              THEN Rename(f, source, BackupPath(source, t))
              ELSE Ok(f)
        e1 == IF linkInfo.k \notin {"none", "link"}
              THEN << <<"rename", source, BackupPath(source, t)>> >> ELSE <<>>
        sl == Symlink(rn.fs, destination, source)
    IN  IF linkInfo.k = "link" /\ linkInfo.t = destination THEN Outcome(f, tr, FALSE, <<>>, FALSE)
        ELSE IF rn.err THEN Outcome(rn.fs, tr, TRUE, <<>>, FALSE)
        ELSE IF sl.err THEN Outcome(sl.fs, tr, TRUE, e1, FALSE)
        ELSE Outcome(sl.fs, AddTrackingPath(tr, Rel(Home, source)), FALSE,
                     e1 \o << <<"symlink", source, destination>> >>, FALSE)

trackSingleFile(f, tr, source, destination, overwrite, t) ==
    IF Stat(f, source).k = "none" THEN Outcome(f, tr, TRUE, <<>>, FALSE)
    ELSE IF Exists(f, destination) /\ ~overwrite THEN Outcome(f, tr, TRUE, <<>>, FALSE)
    ELSE LET cp == copyFile(f, source, destination)
         IN  IF cp.err THEN Outcome(cp.fs, tr, TRUE, <<>>, FALSE)
             ELSE linkSource(cp.fs, tr, source, destination, t)

\* The entries filepath.Walk meets below a live directory of the model.
LiveChildren(f, dir) ==
    SelectSeq(<< <<"a">> >>, LAMBDA r : Lstat(f, Join(dir, r)).k # "none")

RECURSIVE trackEach(_, _, _, _, _, _, _)
trackEach(f, tr, source, destination, overwrite, t, rels) ==
    IF rels = <<>> THEN Outcome(f, tr, FALSE, <<>>, FALSE)
    ELSE LET r == trackSingleFile(f, tr, Join(source, Head(rels)),
                                  Join(destination, Head(rels)), overwrite, t)
         IN  IF r.err THEN r
             ELSE LET rest == trackEach(r.fs, r.tracking, source, destination,
                                        overwrite, t, Tail(rels))
                  IN  [rest EXCEPT !.eff = r.eff \o @]

trackDirectory(f, tr, source, destination, overwrite, t) ==
    trackEach(f, tr, source, destination, overwrite, t, LiveChildren(f, source))

\* TrackFile that overwrites an existing destination whatever the flag says.
TrackFileOverwriting(f, tr, source, destination, overwrite, t) ==
    IF Stat(f, source).k = "none" THEN Outcome(f, tr, TRUE, <<>>, FALSE)
    ELSE IF Stat(f, source).k = "dir"
    THEN trackDirectory(f, tr, source, destination, TRUE, t)
    ELSE trackSingleFile(f, tr, source, destination, TRUE, t)

TrackFile(f, tr, source, destination, overwrite, t) ==
    IF Stat(f, source).k = "none" THEN Outcome(f, tr, TRUE, <<>>, FALSE)
    ELSE IF Exists(f, destination) /\ ~overwrite THEN Outcome(f, tr, TRUE, <<>>, FALSE)
    ELSE IF Stat(f, source).k = "dir"
    THEN trackDirectory(f, tr, source, destination, overwrite, t)
    ELSE trackSingleFile(f, tr, source, destination, overwrite, t)

\* The destinations the model tracks each source to.
TrackDests(source) ==
    IF source = A THEN { Join(CommonDir, <<"a">>), Join(MachineDir, <<"a">>) }
    ELSE IF source = D THEN { Join(CommonDir, <<"d">>) }
    ELSE { Join(CommonDir, <<"d", "a">>) }

TrackLiveA ==
    { None, File(LiveBytes), Link(Join(CommonDir, <<"a">>)), Link(Ext) }

InitTrack ==
    /\ \E present \in SUBSET { Join(CommonDir, <<"a">>), Join(CommonDir, <<"d", "a">>) },
          a \in TrackLiveA, da \in {None, File(LiveBytes)}, ext \in {None, File(ExtBytes)} :
          fs = MkFS(present, a, IF da = None THEN None ELSE Dir(FALSE), da, ext)
    /\ Idle

\* One call of TrackFile, its source and flag drawn from the given sets.
TrackCall(sources, flags) ==
    /\ pc = "idle"
    /\ Len(hist) < MaxOps
    /\ \E source \in sources, overwrite \in flags, t \in Ticks :
          \E destination \in TrackDests(source) :
             LET r == TrackFile(fs, tracking, source, destination, overwrite, t)
             IN  /\ fs' = r.fs
                 /\ tracking' = r.tracking
                 /\ now' = t
                 /\ hist' = Append(hist,
                        [op |-> "track", source |-> source, destination |-> destination,
                         overwrite |-> overwrite, err |-> r.err, eff |-> r.eff,
                         pre |-> fs, post |-> r.fs,
                         preTracking |-> tracking, postTracking |-> r.tracking])
    /\ UNCHANGED <<pc, call>>
    /\ UNCHANGED ind

Track == TrackCall({A, D, DA}, BOOLEAN)

NextTrack == Track

SpecTrack == InitTrack /\ [][NextTrack]_vars

----------------------------------------------------------------------------
(* The conflict scan: detectConflicts *)

\* collectFiles: the regular files below dir, in walk order.
collectFiles(f, dir) == SelectSeq(Walk(f, dir), LAMBDA p : IsTemplateFile(f, p))

\* cfg.CurrentEnvironment, "default" when empty.
ScanEnvironment(current) == IF current = "" THEN "default" ELSE current

\* allPaths: common, then the environment, then the machine.
allPaths(f, current) ==
    collectFiles(f, CommonDir) \o collectFiles(f, EnvDir(ScanEnvironment(current)))
                               \o collectFiles(f, MachineDir)

Drop(parts, n) == SubSeq(parts, n + 1, Len(parts))

\* The switch on parts[0]: <<TRUE, targetPath>>, or <<FALSE>> when the path is skipped.
scanTarget(path) ==
    LET relPath == Rel(Root, path)
        parts == relPath
    IN  IF relPath[1] \in GitNames \/ relPath = <<"README.md">> THEN <<FALSE>>
        ELSE IF Len(parts) < 2 THEN <<FALSE>>
        ELSE IF parts[1] = "common" THEN <<TRUE, Join(Home, Drop(parts, 2))>>
        ELSE IF parts[1] \in {"envs", "machine"}
        THEN IF Len(parts) < 3 THEN <<FALSE>> ELSE <<TRUE, Join(Home, Drop(parts, 3))>>
        ELSE <<FALSE>>

\* The target exists and is not a symlink whose target string is the path.
isConflict(f, path) ==
    /\ scanTarget(path)[1]
    /\ Lstat(f, scanTarget(path)[2]).k # "none"
    /\ ~(Lstat(f, scanTarget(path)[2]).k = "link" /\ Lstat(f, scanTarget(path)[2]).t = path)

ConflictFile(f, path) ==
    [LocalPath |-> scanTarget(path)[2], RemotePath |-> path, Target |-> scanTarget(path)[2],
     Diff |-> IF FileDiff(f, scanTarget(path)[2], path).err
              THEN <<"Unable to generate diff">>
              ELSE FileDiff(f, scanTarget(path)[2], path).diff]

detectConflicts(f, current) ==
    LET hits == SelectSeq(allPaths(f, current), LAMBDA p : isConflict(f, p))
    IN  [i \in 1..Len(hits) |-> ConflictFile(f, hits[i])]

\* A loop body that repairs what it reports: it relinks the target.
scanEntryRepairing(f, conflicts, path) ==
    IF isConflict(f, path)
    THEN [fs |-> [f EXCEPT ![scanTarget(path)[2]] = Link(path)],
          conflicts |-> Append(conflicts, ConflictFile(f, path))]
    ELSE [fs |-> f, conflicts |-> conflicts]

\* The loop body of detectConflicts on one collected path: os.Lstat,
\* os.Readlink and FileDiff read, the record is appended; nothing is written.
scanEntry(f, conflicts, path) ==
    [fs |-> f,
     conflicts |-> IF isConflict(f, path) THEN Append(conflicts, ConflictFile(f, path))
                   ELSE conflicts]

----------------------------------------------------------------------------
(* Conflict resolution: ResolveConflicts *)

Result(f, err, eff) == [fs |-> f, err |-> err, eff |-> eff]

\* updateSymlink: remove the target when os.Lstat finds it, then link.
updateSymlink(f, source, target) ==
    LET rm == IF Lstat(f, target).k # "none" THEN Remove(f, target) ELSE Ok(f)
    IN  IF rm.err THEN Result(rm.fs, TRUE, <<>>)
        ELSE Result(Symlink(rm.fs, source, target).fs, Symlink(rm.fs, source, target).err,
                    IF Lstat(f, target).k # "none" THEN << <<"remove", target>> >> ELSE <<>>)

resolveKeepLocal(f, conflict) ==
    LET cp == copyFile(f, conflict.LocalPath, conflict.RemotePath)
    IN  IF cp.err THEN Result(cp.fs, TRUE, <<>>)
        ELSE updateSymlink(cp.fs, conflict.RemotePath, conflict.LocalPath)

resolveKeepRemote(f, conflict, t) ==
    LET bk == BackupFile(f, conflict.LocalPath, t)
        e1 == IF bk.path # <<>> THEN << <<"backup", conflict.LocalPath, bk.path>> >> ELSE <<>>
        up == updateSymlink(bk.fs, conflict.RemotePath, conflict.LocalPath)
    IN  IF bk.err THEN Result(bk.fs, TRUE, <<>>)
        ELSE [up EXCEPT !.eff = e1 \o @]

\* resolveConflict: the switch on the strategy; an unknown name is an error.
resolveConflict(f, conflict, strategy, t) ==
    IF strategy = "keep-local" THEN resolveKeepLocal(f, conflict)
    ELSE IF strategy = "keep-remote" THEN resolveKeepRemote(f, conflict, t)
    ELSE Result(f, TRUE, <<>>)

\* The loop gives up at the first record that fails.
stopAtFailure(i, n, err) == IF err THEN n + 1 ELSE i + 1

\* The index the loop of ResolveConflicts goes to after record i of n.
nextRecord(i, n, err) == i + 1

\* What ResolveConflicts returns once the scan succeeded: nil (FALSE is no error).
resolveReturns(attempts) == FALSE

Strategies == {"keep-local", "keep-remote", "bogus"}

ResolveTemplates ==
    { Join(CommonDir, <<"a">>), Join(CommonDir, <<"d", "a">>),
      Join(EnvDir(EnvName), <<"a">>), Join(MachineDir, <<"d", "a">>) }

\* What ~/a and the file outside the tree can be when resolution starts.
ResolveLive ==
    { <<None, None>>, <<File(LiveBytes), None>>, <<Dir(TRUE), None>>,
      <<Link(Join(CommonDir, <<"d", "a">>)), None>>,
      <<Link(Alias(Join(CommonDir, <<"d", "a">>))), None>>,
      <<Link(Join(MachineDir, <<"d", "a">>)), None>>,
      <<Link(Ext), None>>, <<Link(Ext), File(ExtBytes)>> }

InitResolve ==
    /\ \E present \in SUBSET ResolveTemplates, l \in ResolveLive :
          fs = MkFS(present, l[1], None, None, l[2])
    /\ Idle

ResolveBegin ==
    /\ pc = "idle"
    /\ Len(hist) < MaxResolves
    /\ \E strategy \in Strategies, current \in {"", EnvName} :
          call' = [op |-> "resolve", strategy |-> strategy, current |-> current,
                   conflicts |-> detectConflicts(fs, current), i |-> 1,
                   attempts |-> <<>>, pre |-> fs, preTracking |-> tracking]
    /\ pc' = "resolve"
    /\ UNCHANGED <<fs, tracking, now, hist>>
    /\ UNCHANGED ind

ResolveStep ==
    /\ pc = "resolve"
    /\ call.i <= Len(call.conflicts)
    /\ \E t \in (IF call.strategy = "keep-remote" THEN Ticks ELSE {now}) :
          LET c == call.conflicts[call.i]
              r == resolveConflict(fs, c, call.strategy, t)
          IN  /\ fs' = r.fs
              /\ now' = t
              /\ call' = [call EXCEPT
                            !.i = nextRecord(call.i, Len(call.conflicts), r.err),
                            !.attempts = Append(@, [index |-> call.i, err |-> r.err,
                                                    eff |-> r.eff, before |-> fs,
                                                    after |-> r.fs, stamp |-> t])]
    /\ UNCHANGED <<tracking, pc, hist>>
    /\ UNCHANGED ind

ResolveReturn ==
    /\ pc = "resolve"
    /\ call.i > Len(call.conflicts)
    /\ hist' = Append(hist, [call EXCEPT !.i = 0]
                             @@ [err |-> resolveReturns(call.attempts), post |-> fs,
                                 postTracking |-> tracking])
    /\ pc' = "idle"
    /\ call' = NoCall
    /\ UNCHANGED <<fs, tracking, now>>
    /\ UNCHANGED ind

NextResolve == ResolveBegin \/ ResolveStep \/ ResolveReturn

SpecResolve == InitResolve /\ [][NextResolve]_vars

----------------------------------------------------------------------------
(* The scan on its own, one collected path at a time *)

ScanBegin ==
    /\ pc = "idle"
    /\ Len(hist) < MaxOps
    /\ \E current \in {"", EnvName} :
          call' = [op |-> "scan", current |-> current, paths |-> allPaths(fs, current),
                   i |-> 1, conflicts |-> <<>>, pre |-> fs, preTracking |-> tracking]
    /\ pc' = "scan"
    /\ UNCHANGED <<fs, tracking, now, hist>>
    /\ UNCHANGED ind

ScanStep ==
    /\ pc = "scan"
    /\ call.i <= Len(call.paths)
    /\ LET r == scanEntry(fs, call.conflicts, call.paths[call.i])
       IN  /\ fs' = r.fs
           /\ call' = [call EXCEPT !.i = @ + 1, !.conflicts = r.conflicts]
    /\ UNCHANGED <<tracking, now, pc, hist>>
    /\ UNCHANGED ind

ScanReturn ==
    /\ pc = "scan"
    /\ call.i > Len(call.paths)
    /\ hist' = Append(hist, [call EXCEPT !.i = 0] @@ [post |-> fs, postTracking |-> tracking])
    /\ pc' = "idle"
    /\ call' = NoCall
    /\ UNCHANGED <<fs, tracking, now>>
    /\ UNCHANGED ind

NextScan == ScanBegin \/ ScanStep \/ ScanReturn

SpecScan == InitResolve /\ [][NextScan]_vars

----------------------------------------------------------------------------
(* Apply and the scan over a tree that holds reserved entries *)

\* The file system g with reserved templates and the live paths of their names.
WithReserved(g, present, live) ==
    [p \in DOMAIN g \cup ReservedFiles \cup ReservedLive |->
        IF p \in ReservedFiles THEN (IF p \in present THEN File(Rel(Root, p)) ELSE None)
        ELSE IF p \in ReservedLive THEN (IF p \in live THEN File(LiveBytes) ELSE None)
        ELSE g[p]]

InitReserved ==
    /\ \E present \in SUBSET ({Join(CommonDir, <<"a">>)} \cup ReservedFiles),
          live \in SUBSET ReservedLive, a \in {None, File(LiveBytes)} :
          fs = WithReserved(MkFS(present, a, None, None, None), present, live)
    /\ Idle

NextReserved == NextApply \/ NextScan

SpecReserved == InitReserved /\ [][NextReserved]_vars

----------------------------------------------------------------------------
(* Resolution by merge, backup-both and the interactive prompt *)

\* os.CreateTemp: a new, empty file.
createTemp(f, p) == [f EXCEPT ![p] = File(Empty)]

\* An exit path that leaves the temporary file behind.
keepTemp(f, p) == f

\* os.Remove of the temporary file, its error ignored.
removeTemp(f, p) == Remove(f, p).fs

\* How the external program (merge tool, editor) ends: it exits with an error,
\* leaves the file as seeded, saves new bytes, or unlinks the file.
ToolRuns == {"fails", "keeps", "writes", "unlinks"}

\* cmd.Run on the temporary file p.
runTool(f, p, run) ==
    IF run = "fails" THEN Fail(f)
    ELSE IF run = "writes" THEN Ok([f EXCEPT ![p] = File(ToolBytes)])
    ELSE IF run = "unlinks" THEN Ok([f EXCEPT ![p] = None])
    ELSE Ok(f)

\* Seed the temporary file from the template, run the program on it.
seedAndRun(f, conflict, p, run) ==
    LET seed == copyFile(createTemp(f, p), conflict.RemotePath, p)
    IN  IF seed.err THEN seed ELSE runTool(seed.fs, p, run)

\* Copy the temporary file over the live path, then over the template.
copyBack(f, conflict, p) ==
    LET c1 == copyFile(f, p, conflict.LocalPath)
    IN  IF c1.err THEN c1 ELSE copyFile(c1.fs, p, conflict.RemotePath)

\* resolveMerge; found: exec.LookPath finds a merge tool.
resolveMerge(f, conflict, found, run) ==
    IF ~found THEN Result(f, TRUE, <<>>)
    ELSE LET tl == seedAndRun(f, conflict, MergedPath, run)
             cb == copyBack(tl.fs, conflict, MergedPath)
         IN  IF tl.err THEN Result(removeTemp(tl.fs, MergedPath), TRUE, <<>>)
             ELSE IF cb.err THEN Result(removeTemp(cb.fs, MergedPath), TRUE, <<>>)
             ELSE updateSymlink(removeTemp(cb.fs, MergedPath),
                                conflict.RemotePath, conflict.LocalPath)

\* backup-both that also links the live path, as the other strategies do.
resolveBackupBothLinking(f, conflict, t) ==
    LET cp == copyFile(f, conflict.LocalPath, LocalCopyPath(conflict.RemotePath, t))
    IN  IF cp.err THEN Result(cp.fs, TRUE, <<>>)
        ELSE updateSymlink(cp.fs, conflict.RemotePath, conflict.LocalPath)

\* resolveBackupBoth: copy the live file next to the template file.
resolveBackupBoth(f, conflict, t) ==
    LET cp == copyFile(f, conflict.LocalPath, LocalCopyPath(conflict.RemotePath, t))
    IN  Result(cp.fs, cp.err, <<>>)

\* viewDiffExternal: the tool is run on the two paths; nothing is written.
viewDiffExternal(f, conflict, found, run) == Result(f, found /\ run = "fails", <<>>)

\* editFileManually; found: an editor is found; answer: the line read at
\* "Use this edited version?", "eof" a failed read.
editFileManually(f, conflict, found, run, answer) ==
    IF ~found THEN Result(f, TRUE, <<>>)
    ELSE LET tl == seedAndRun(f, conflict, EditPath, run)
             cb == copyBack(tl.fs, conflict, EditPath)
             up == updateSymlink(cb.fs, conflict.RemotePath, conflict.LocalPath)
         IN  IF tl.err \/ answer = "eof" THEN Result(removeTemp(tl.fs, EditPath), TRUE, <<>>)
             ELSE IF answer = "n" THEN Result(removeTemp(tl.fs, EditPath), FALSE, <<>>)
             ELSE IF cb.err THEN Result(removeTemp(cb.fs, EditPath), TRUE, <<>>)
             ELSE Result(removeTemp(up.fs, EditPath), up.err, up.eff)

\* resolveConflict with the inputs merge needs.
resolveConflictWith(f, conflict, strategy, t, found, run) ==
    IF strategy = "merge" THEN resolveMerge(f, conflict, found, run)
    ELSE IF strategy = "backup-both" THEN resolveBackupBoth(f, conflict, t)
    ELSE resolveConflict(f, conflict, strategy, t)

\* What can be typed at "Enter your choice (1-7)"; "x" is any other line, "eof"
\* a failed read.
Choices == {"1", "2", "3", "4", "5", "6", "7", "x", "eof"}

\* The choices after which the prompt is shown again.
LoopChoices == {"4", "5", "x"}

\* A prompt loop that also ends after the edit of choice 5.
promptReturnsAfterEdit(choice) == choice \notin {"4", "x"}

\* The loop of resolveInteractive ends on this line of input.
promptReturns(choice) == choice \in {"1", "2", "3", "6", "7", "eof"}

\* The switch of resolveInteractive on one line of input.
promptAnswer(f, conflict, choice, t, found, run, answer) ==
    IF choice = "eof" THEN Result(f, TRUE, <<>>)
    ELSE IF choice = "1" THEN resolveKeepLocal(f, conflict)
    ELSE IF choice = "2" THEN resolveKeepRemote(f, conflict, t)
    ELSE IF choice = "3" THEN resolveMerge(f, conflict, found, run)
    ELSE IF choice = "4" THEN viewDiffExternal(f, conflict, found, run)
    ELSE IF choice = "5" THEN editFileManually(f, conflict, found, run, answer)
    ELSE IF choice = "6" THEN resolveBackupBoth(f, conflict, t)
    ELSE Result(f, FALSE, <<>>)

DialogTemplates ==
    { Join(CommonDir, <<"a">>), Join(CommonDir, <<"d", "a">>), Join(MachineDir, <<"d", "a">>) }

\* What ~/a and the file outside the tree can be when resolution starts.
DialogLive ==
    { <<File(LiveBytes), None>>, <<Link(Join(CommonDir, <<"d", "a">>)), None>>,
      <<Link(Ext), File(ExtBytes)>> }

\* The file system g with room for the temporary files and the .local copies.
WithScratch(g) ==
    [p \in DOMAIN g \cup {MergedPath, EditPath}
             \cup { LocalCopyPath(q, n) : q \in DialogTemplates, n \in 0..MaxClock } |->
        IF p \in DOMAIN g THEN g[p] ELSE None]

InitDialog ==
    /\ \E present \in SUBSET DialogTemplates, l \in DialogLive :
          fs = WithScratch(MkFS(present, l[1], None, None, l[2]))
    /\ Idle

\* One ResolveConflicts call is followed from its scan to its return.
DialogBegin ==
    /\ pc = "idle"
    /\ hist = <<>>
    /\ \E strategy \in {"interactive", "merge", "backup-both"} :
          call' = [op |-> "resolve", strategy |-> strategy, current |-> EnvName,
                   conflicts |-> detectConflicts(fs, EnvName), i |-> 1,
                   prompts |-> 0, eof |-> FALSE, last |-> [choice |-> "none"],
                   pre |-> fs, preTracking |-> tracking]
    /\ pc' = "dialog"
    /\ UNCHANGED <<fs, tracking, now, hist>>
    /\ UNCHANGED ind

\* One record resolved by merge or backup-both.
DialogStep ==
    /\ pc = "dialog"
    /\ call.strategy # "interactive"
    /\ call.i <= Len(call.conflicts)
    /\ \E t \in (IF call.strategy = "backup-both" THEN Ticks ELSE {now}),
          found \in (IF call.strategy = "merge" THEN BOOLEAN ELSE {TRUE}) :
       \E run \in (IF call.strategy = "merge" /\ found THEN ToolRuns ELSE {"keeps"}) :
          LET c == call.conflicts[call.i]
              r == resolveConflictWith(fs, c, call.strategy, t, found, run)
          IN  /\ fs' = r.fs
              /\ now' = t
              /\ call' = [call EXCEPT
                            !.i = nextRecord(call.i, Len(call.conflicts), r.err),
                            !.last = [index |-> call.i, choice |-> "", err |-> r.err,
                                      returned |-> TRUE, before |-> fs, after |-> r.fs,
                                      stamp |-> t, found |-> found, run |-> run]]
    /\ UNCHANGED <<tracking, pc, hist>>
    /\ UNCHANGED ind

\* One line read at the prompt of resolveInteractive and acted on.  Once a read
\* has failed, every later read fails.
Prompt ==
    /\ pc = "dialog"
    /\ call.strategy = "interactive"
    /\ call.i <= Len(call.conflicts)
    /\ \E choice \in Choices :
          /\ call.eof => choice = "eof"
          /\ call.prompts < MaxPrompts \/ choice \notin LoopChoices
          /\ \E t \in (IF choice \in {"2", "6"} THEN Ticks ELSE {now}),
                found \in (IF choice \in {"3", "4", "5"} THEN BOOLEAN ELSE {TRUE}) :
             \E run \in (IF ~found \/ choice \notin {"3", "4", "5"} THEN {"keeps"}
                         ELSE IF choice = "4" THEN {"keeps", "fails"} ELSE ToolRuns) :
             \E answer \in (IF choice = "5" /\ found /\ run # "fails"
                            THEN {"y", "n", "eof"} ELSE {"n"}) :
                LET c == call.conflicts[call.i]
                    r == promptAnswer(fs, c, choice, t, found, run, answer)
                    next == IF promptReturns(choice)
                            THEN nextRecord(call.i, Len(call.conflicts), r.err)
                            ELSE call.i
                IN  /\ fs' = r.fs
                    /\ now' = t
                    /\ call' = [call EXCEPT
                                  !.i = next,
                                  !.prompts = IF choice \in LoopChoices THEN @ + 1 ELSE @,
                                  !.eof = @ \/ choice = "eof"
                                            \/ (choice = "5" /\ found /\ run # "fails"
                                                /\ answer = "eof"),
                                  !.last = [index |-> call.i, choice |-> choice,
                                            err |-> r.err,
                                            returned |-> next # call.i,
                                            before |-> fs, after |-> r.fs, stamp |-> t,
                                            found |-> found, run |-> run]]
    /\ UNCHANGED <<tracking, pc, hist>>
    /\ UNCHANGED ind

DialogReturn ==
    /\ pc = "dialog"
    /\ call.i > Len(call.conflicts)
    /\ hist' = Append(hist, [call EXCEPT !.i = 0]
                             @@ [err |-> resolveReturns(<<call.last>>), post |-> fs,
                                 postTracking |-> tracking])
    /\ pc' = "idle"
    /\ call' = NoCall
    /\ UNCHANGED <<fs, tracking, now>>
    /\ UNCHANGED ind

NextDialog == DialogBegin \/ DialogStep \/ Prompt \/ DialogReturn

SpecDialog == InitDialog /\ [][NextDialog]_vars

----------------------------------------------------------------------------
(* The tracking list under Apply, TrackFile and AddTrackingPath *)

ListPaths == { <<"a">>, <<"d", "a">>, <<"x">> }

\* currentConfig.TrackingPaths as loaded: empty, or holding one path.
InitList ==
    /\ \E a \in {None, File(LiveBytes)}, da \in {None, File(LiveBytes)} :
          fs = MkFS({Join(CommonDir, <<"a">>), Join(CommonDir, <<"d", "a">>)},
                    a, IF da = None THEN None ELSE Dir(FALSE), da, None)
    /\ tracking \in { <<>>, << <<"d", "a">> >> }
    /\ ind = NoIndicator
    /\ now = 0
    /\ pc = "idle"
    /\ call = NoCall
    /\ hist = <<>>

\* A direct call of AddTrackingPath.
AddPath ==
    /\ pc = "idle"
    /\ Len(hist) < MaxOps
    /\ \E path \in ListPaths :
          /\ tracking' = AddTrackingPath(tracking, path)
          /\ hist' = Append(hist, [op |-> "add", path |-> path, err |-> FALSE,
                                   pre |-> fs, post |-> fs, preTracking |-> tracking,
                                   postTracking |-> AddTrackingPath(tracking, path)])
    /\ UNCHANGED <<fs, now, pc, call>>
    /\ UNCHANGED ind

TrackListed == TrackCall({A, DA}, {TRUE})

NextList == ApplyBegin \/ ApplyStep \/ ApplyReturn \/ TrackListed \/ AddPath

SpecList == InitList /\ [][NextList]_vars

----------------------------------------------------------------------------
(* ProgressIndicator: the caller of Start and Stop, and the animation goroutine *)

Styles == {"Spinner", "Bar", "Bounce", "Dots", "Pulse", "Rainbow"}

\* The frames an animation cycles through: frames, symbols or colours by
\* index, the dots 0..max, the ball from end to end and back; the bar has one.
Frames(style) ==
    CASE style = "Spinner" -> 10
      [] style = "Bar" -> 1
      [] style = "Bounce" -> 38
      [] style = "Dots" -> 6
      [] style = "Pulse" -> 14
      [] style = "Rainbow" -> 6

\* NewProgressIndicator: not active, the mutex free, nobody on the channel,
\* stopOnce not yet used.
InitIndicator ==
    /\ fs = MkFS({}, None, None, None, None)
    /\ tracking = <<>>
    /\ now = 0
    /\ pc = "idle"
    /\ call = NoCall
    /\ hist = <<>>
    /\ \E style \in Styles :
          ind = [style |-> style, active |-> FALSE, mutex |-> "free", progressPct |-> 0,
                 frame |-> 0, once |-> FALSE, caller |-> "new", anim |-> "unborn"]

Rest == UNCHANGED <<fs, tracking, now, pc, call, hist>>

\* Start: p.mutex.Lock()
StartLock ==
    /\ ind.caller = "new" /\ ind.mutex = "free"
    /\ ind' = [ind EXCEPT !.mutex = "caller", !.caller = "start"]
    /\ Rest

\* Start: return when already active; else p.active = true, p.mutex.Unlock()
StartActivate ==
    /\ ind.caller = "start"
    /\ ind' = IF ind.active THEN [ind EXCEPT !.mutex = "free", !.caller = "started"]
              ELSE [ind EXCEPT !.active = TRUE, !.mutex = "free", !.caller = "go"]
    /\ Rest

\* Start: the go statement; Start returns.
StartGo ==
    /\ ind.caller = "go"
    /\ ind' = [ind EXCEPT !.anim = "select", !.caller = "started"]
    /\ Rest

\* UpdateProgress(50), under the mutex, as the caller of a bar does.
UpdateProgress ==
    /\ ind.caller = "started" /\ ind.style = "Bar" /\ ind.mutex = "free"
    /\ ind.progressPct = 0
    /\ ind' = [ind EXCEPT !.progressPct = 50]
    /\ Rest

\* Stop is called: p.stopOnce.Do runs the function.
StopOnce ==
    /\ ind.caller = "started" /\ ~ind.once
    /\ ind' = [ind EXCEPT !.once = TRUE, !.caller = "stop"]
    /\ Rest

\* Stop: p.mutex.Lock()
StopLock ==
    /\ ind.caller = "stop" /\ ind.mutex = "free"
    /\ ind' = [ind EXCEPT !.mutex = "caller", !.caller = "stopping"]
    /\ Rest

\* Stop: return when not active; else p.active = false, p.mutex.Unlock(), and
\* the caller goes to the send on the unbuffered channel p.done.
StopDeactivate ==
    /\ ind.caller = "stopping"
    /\ ind' = IF ~ind.active THEN [ind EXCEPT !.mutex = "free", !.caller = "stopped"]
              ELSE [ind EXCEPT !.active = FALSE, !.mutex = "free", !.caller = "send"]
    /\ Rest

\* Stop: the send was received; the line is cleared and Stop returns.
StopClear ==
    /\ ind.caller = "sent"
    /\ ind' = [ind EXCEPT !.caller = "stopped"]
    /\ Rest

\* The select of the animation loop: it receives from p.done when the caller
\* is blocked in the send, and returns; else it takes the default branch.
runSelect ==
    /\ ind.anim = "select"
    /\ ind' = IF ind.caller = "send" THEN [ind EXCEPT !.anim = "exited", !.caller = "sent"]
              ELSE [ind EXCEPT !.anim = "lock"]
    /\ Rest

\* The default branch: p.mutex.Lock()
runLock ==
    /\ ind.anim = "lock" /\ ind.mutex = "free"
    /\ ind' = [ind EXCEPT !.mutex = "anim", !.anim = "locked"]
    /\ Rest

\* Under the mutex: return when not active; else draw the frame.  Either way
\* the mutex is released.
runFrame ==
    /\ ind.anim = "locked"
    /\ ind' = IF ~ind.active THEN [ind EXCEPT !.mutex = "free", !.anim = "exited"]
              ELSE [ind EXCEPT !.mutex = "free", !.anim = "sleep"]
    /\ Rest

\* time.Sleep(interval) is over; the frame index advances.
runSleep ==
    /\ ind.anim = "sleep"
    /\ ind' = [ind EXCEPT !.frame = (@ + 1) % Frames(ind.style), !.anim = "select"]
    /\ Rest

Caller ==
    StartLock \/ StartActivate \/ StartGo \/ UpdateProgress \/ StopOnce \/ StopLock
        \/ StopDeactivate \/ StopClear

Animation == runSelect \/ runLock \/ runFrame \/ runSleep

NextIndicator == Caller \/ Animation

\* The scheduler runs every goroutine that can take a step.
SpecIndicator ==
    InitIndicator /\ [][NextIndicator]_vars /\ WF_vars(Caller) /\ WF_vars(Animation)

----------------------------------------------------------------------------
(* ProgressIndicator: any sequence of Start and Stop calls by one caller *)

\* Stop is called before any Start: p.stopOnce.Do runs the function.
StopFirst ==
    /\ ind.caller = "new" /\ ~ind.once
    /\ ind' = [ind EXCEPT !.once = TRUE, !.caller = "stop"]
    /\ Rest

\* Stop is called after stopOnce was used: Do does not run the function and
\* Stop returns.
StopSpent ==
    /\ ind.caller = "started" /\ ind.once
    /\ ind' = [ind EXCEPT !.caller = "stopped"]
    /\ Rest

\* Start is called again, after a Start or a Stop returned: p.mutex.Lock()
StartAgain ==
    /\ ind.caller \in {"started", "stopped"} /\ ind.mutex = "free"
    /\ ind' = [ind EXCEPT !.mutex = "caller", !.caller = "start"]
    /\ Rest

NextRestart == NextIndicator \/ StopFirst \/ StopSpent \/ StartAgain

SpecRestart == InitIndicator /\ [][NextRestart]_vars

----------------------------------------------------------------------------
(* Properties of Apply *)

Applies == { k \in 1..Len(hist) : hist[k].op = "apply" }

LinkState(f) == [p \in LiveFiles |-> f[p]]

EffOps(h) == { h.eff[i][1] : i \in 1..Len(h.eff) }

\* Precedence of the tiers, lowest first, as the template layout defines it.
TierRank(dir) == IF dir = CommonDir THEN 1 ELSE IF dir = MachineDir THEN 3 ELSE 2

TiersOf(environment) ==
    {CommonDir, MachineDir} \cup (IF environment # "" THEN {EnvDir(environment)} ELSE {})

\* The tiers of a finished run that hold a file for the live path.
Holders(h, live) ==
    { dir \in TiersOf(h.environment) : IsTemplateFile(h.post, Join(dir, Rel(Home, live))) }

TopHolder(h, live) ==
    CHOOSE dir \in Holders(h, live) : \A o \in Holders(h, live) : TierRank(o) <= TierRank(dir)

\* C1: a second Apply in succession, with the same options, no error and no
\* declined prompt in either run, leaves the link state of the first, creates
\* no backup, removes no live path and adds nothing to the tracking list.
C1_ApplyIdempotent ==
    \A k \in Applies :
        (/\ k + 1 \in Applies
         /\ ~hist[k].err /\ ~hist[k + 1].err
         /\ hist[k].declined = {} /\ hist[k + 1].declined = {})
        => /\ LinkState(hist[k + 1].post) = LinkState(hist[k].post)
           /\ "backup" \notin EffOps(hist[k + 1])
           /\ "remove" \notin EffOps(hist[k + 1])
           /\ hist[k + 1].postTracking = hist[k + 1].preTracking

C10_ApplyContinuesPastFailure ==
    \A k \in Applies :
        Len(hist[k].visited) = Len(ApplyWork(hist[k].post, hist[k].environment))

\* The entry the walk callback is about to be invoked on.
Current == ApplyWork(fs, call.environment)[call.i]

\* One invocation of the walk callback.
Callback == pc = "apply" /\ pc' = "apply"

\* C16: a backup file, once created, keeps its bytes and is never deleted.
C16_BackupsImmutable ==
    [][\A b \in BackupPaths : fs[b].k # "none" => fs'[b] = fs[b]]_vars

\* C18: with diffPrompt enabled, Apply changes an existing live path only
\* when the prompt for that entry was asked and answered yes.
C18_ConfirmationRequired ==
    [][(Callback /\ call.diffPrompt)
        => \A live \in LiveFiles :
              (fs[live].k # "none" /\ fs'[live] # fs[live])
              => /\ Prompts(fs, Current.dir, Current.path, TRUE)
                 /\ Current.path \notin call'.declined]_vars

\* C19: a callback in which the prompt is declined changes no path, no backup
\* and not the tracking list, returns no error, and the walk goes on to the
\* next entry.
C19_DeclineIsCleanSkip ==
    [][(Callback /\ call'.declined # call.declined)
        => /\ fs' = fs
           /\ tracking' = tracking
           /\ ~call'.err
           /\ call'.i = call.i + 1]_vars

\* A run in which the prompt for ~/a was declined went on to link ~/d/a and
\* returned no error.
C19_Witness ==
    \E k \in Applies :
        /\ hist[k].declined = {Join(CommonDir, <<"a">>)}
        /\ ~hist[k].err
        /\ hist[k].post[A] = File(LiveBytes)
        /\ hist[k].post[DA] = Link(Join(CommonDir, <<"d", "a">>))
        /\ hist[k].postTracking = << <<"d", "a">> >>

\* A backup of the live path holds these bytes.
BackedUp(f, live, node) ==
    \E n \in 0..MaxClock : f[BackupPath(live, n)].k = "file" /\ f[BackupPath(live, n)].c = node.c

\* C20: with backup enabled, a callback that removes or replaces a regular
\* file leaves a backup holding that file's bytes.
C20_BackupPrecedesOverwrite ==
    [][(Callback /\ call.backup)
        => \A live \in LiveFiles :
              (fs[live].k = "file" /\ fs'[live] # fs[live])
              => BackedUp(fs', live, fs[live])]_vars

\* The link state of an uninterrupted run from the state the cut run began in.
Uninterrupted(h) ==
    ApplyConfigurationsWithOptions(h.pre, h.preTracking, h.environment, h.backup,
                                   h.diffPrompt, 0)

\* C15: when a run of Apply is cut short and Apply is then run again to
\* completion (no error, no prompt declined), the link state is that of an
\* uninterrupted run from the original state, and with backup enabled the
\* bytes of every regular file the runs replaced are held by a backup.
C15_ApplyResumes ==
    \A k \in Applies :
        (/\ hist[k].crashed
         /\ k + 1 \in Applies
         /\ ~hist[k + 1].crashed /\ ~hist[k + 1].err
         /\ hist[k].declined = {} /\ hist[k + 1].declined = {}
         /\ ~Uninterrupted(hist[k]).err)
        => /\ LinkState(hist[k + 1].post) = LinkState(Uninterrupted(hist[k]).fs)
           /\ hist[k].backup
                 => \A live \in LiveFiles :
                       (/\ hist[k].pre[live].k = "file"
                        /\ hist[k + 1].post[live] # hist[k].pre[live])
                       => BackedUp(hist[k + 1].post, live, hist[k].pre[live])

\* The first half of C15 alone: the link state after the resumed run.
ResumeLinkState ==
    \A k \in Applies :
        (/\ hist[k].crashed
         /\ k + 1 \in Applies
         /\ ~hist[k + 1].crashed /\ ~hist[k + 1].err
         /\ hist[k].declined = {} /\ hist[k + 1].declined = {}
         /\ ~Uninterrupted(hist[k]).err)
        => LinkState(hist[k + 1].post) = LinkState(Uninterrupted(hist[k]).fs)

----------------------------------------------------------------------------
(* Properties of TrackFile *)

Tracks == { k \in 1..Len(hist) : hist[k].op = "track" }

C12_RetrackIdempotent ==
    \A k \in Tracks :
        LET h == hist[k]
        IN  (/\ h.pre[h.source] = Link(h.destination)
             /\ h.pre[h.destination].k = "file")
            => /\ ~h.err
               /\ h.post[h.destination] = h.pre[h.destination]
               /\ h.post[h.source] = h.pre[h.source]
               /\ [b \in BackupPaths |-> h.post[b]] = [b \in BackupPaths |-> h.pre[b]]
               /\ h.postTracking = h.preTracking

\* A template file exists at the destination, or below it when it is a directory.
DestinationExists(f, destination) ==
    \E q \in TemplateFiles : HasPrefix(q, destination) /\ f[q].k = "file"

\* C13: TrackFile with overwrite false, of an existing source to a destination
\* that already exists, returns an error and changes no file and not the
\* tracking list.
C13_AlreadyTrackedRefusal ==
    \A k \in Tracks :
        LET h == hist[k]
        IN  (DestinationExists(h.pre, h.destination) /\ ~h.overwrite)
            => /\ h.err
               /\ h.post = h.pre
               /\ h.postTracking = h.preTracking

\* A regular file was refused because its destination holds a template file.
C13_Witness ==
    \E k \in Tracks :
        /\ hist[k].pre[hist[k].source] = File(LiveBytes)
        /\ hist[k].pre[hist[k].destination].k = "file"
        /\ ~hist[k].overwrite
        /\ hist[k].err

----------------------------------------------------------------------------
(* Properties of the scan and of resolution *)

Resolves == { k \in 1..Len(hist) : hist[k].op = "resolve" }

\* The Path Mapper of the design: the live path of a template path is what is
\* left after the tier root (one segment for common, two for envs/<name> and
\* machine/<hostname>), below the home directory.
MapperTarget(path) ==
    IF Rel(Root, path)[1] = "common" THEN Join(Home, Drop(Rel(Root, path), 1))
    ELSE Join(Home, Drop(Rel(Root, path), 2))

Linked(f, live, path) == Lstat(f, live) = Link(path)

RecordsFor(conflicts, live) == { i \in 1..Len(conflicts) : conflicts[i].LocalPath = live }

\* C4: every record of the scan pairs a template file with the live path the
\* Path Mapper gives it, and a regular file at ~/a with common/a in the tree
\* yields exactly one record, for ~/a and common/a.
C4_ScanUsesPathMapper ==
    pc = "resolve" =>
        /\ \A i \in 1..Len(call.conflicts) :
              call.conflicts[i].LocalPath = MapperTarget(call.conflicts[i].RemotePath)
        /\ (IsTemplateFile(fs, Join(CommonDir, <<"a">>)) /\ call.pre[A].k = "file")
              => Cardinality({ i \in RecordsFor(call.conflicts, A) :
                                 call.conflicts[i].RemotePath = Join(CommonDir, <<"a">>) }) = 1

\* C5: a template file of a scanned tier is reported exactly when its live
\* path exists and is not a symlink to it, and no live path is reported twice.
C5_ScanTotalNoDuplicates ==
    pc = "resolve" =>
        /\ \A p \in Range(allPaths(call.pre, call.current)) :
              (\E i \in 1..Len(call.conflicts) : call.conflicts[i].RemotePath = p)
              <=> (/\ Lstat(call.pre, MapperTarget(p)).k # "none"
                   /\ ~Linked(call.pre, MapperTarget(p), p))
        /\ \A i, j \in 1..Len(call.conflicts) :
              call.conflicts[i].LocalPath = call.conflicts[j].LocalPath => i = j

Attempts(h) == { h.attempts[j] : j \in 1..Len(h.attempts) }

Bytes(f, p) == Stat(f, p)

NewBackups(before, after) ==
    { p \in BackupPaths : before[p].k = "none" /\ after[p].k # "none" }

\* C6: after resolveKeepLocal returns nil the live path reads the bytes it
\* read before, the template file holds them, and the live path is a symlink
\* to the template path.
C6_KeepLocal ==
    \A k \in Resolves : \A at \in Attempts(hist[k]) :
        LET c == hist[k].conflicts[at.index]
        IN  (hist[k].strategy = "keep-local" /\ ~at.err)
            => /\ Bytes(at.after, c.LocalPath) = Bytes(at.before, c.LocalPath)
               /\ Bytes(at.after, c.RemotePath) = Bytes(at.before, c.LocalPath)
               /\ Linked(at.after, c.LocalPath, c.RemotePath)

\* C7: after resolveKeepRemote returns nil the template file is unchanged,
\* exactly one new backup file exists, holding what the live path read before
\* (nothing to hold when it was a dangling symlink), and the live path is a
\* symlink to the template path.
C7_KeepRemote ==
    \A k \in Resolves : \A at \in Attempts(hist[k]) :
        LET c == hist[k].conflicts[at.index]
        IN  (hist[k].strategy = "keep-remote" /\ ~at.err)
            => /\ at.after[c.RemotePath] = at.before[c.RemotePath]
               /\ Cardinality(NewBackups(at.before, at.after)) = 1
               /\ \A b \in NewBackups(at.before, at.after) :
                     Bytes(at.before, c.LocalPath).k = "file"
                        => at.after[b] = Bytes(at.before, c.LocalPath)
               /\ Linked(at.after, c.LocalPath, c.RemotePath)

KnownStrategies == {"interactive", "keep-local", "keep-remote", "merge", "backup-both"}

\* C8: ResolveConflicts with an unknown strategy name returns an error and
\* changes no file.
C8_UnknownStrategy ==
    \A k \in Resolves :
        hist[k].strategy \notin KnownStrategies
        => hist[k].err /\ hist[k].post = hist[k].pre

\* C9: when ResolveConflicts returns, resolveConflict has been invoked on
\* every detected record exactly once, in scan order, whatever failed.
C9_BatchContinues ==
    \A k \in Resolves :
        [j \in 1..Len(hist[k].attempts) |-> hist[k].attempts[j].index]
            = [j \in 1..Len(hist[k].conflicts) |-> j]

\* A record failed and a later record of the same batch was resolved.
C9_Witness ==
    \E k \in Resolves :
        \E i, j \in 1..Len(hist[k].attempts) :
            /\ i < j
            /\ hist[k].attempts[i].err
            /\ ~hist[k].attempts[j].err
            /\ hist[k].attempts[j].after # hist[k].attempts[j].before

----------------------------------------------------------------------------
(* Properties of the scan on its own *)

Scans == { k \in 1..Len(hist) : hist[k].op = "scan" }

\* C11: detectConflicts changes no live path, no template file, no backup and
\* not the tracking list, and a scan that follows a scan, under the same
\* configuration, returns the same list of records.
C11_ScanReadOnly ==
    \A k \in Scans :
        /\ hist[k].post = hist[k].pre
        /\ hist[k].postTracking = hist[k].preTracking
        /\ (k + 1 \in Scans /\ hist[k + 1].current = hist[k].current)
              => hist[k + 1].conflicts = hist[k].conflicts

\* Two scans in succession each reported a live path that is a stale symlink.
C11_Witness ==
    \E k \in Scans :
        /\ k + 1 \in Scans
        /\ hist[k + 1].current = hist[k].current
        /\ Len(hist[k + 1].conflicts) >= 1
        /\ \E i \in 1..Len(hist[k].conflicts) :
              Lstat(hist[k].pre, hist[k].conflicts[i].LocalPath).k = "link"

----------------------------------------------------------------------------
(* Properties of the tracking list *)

NoDuplicates(tr) == \A i, j \in 1..Len(tr) : tr[i] = tr[j] => i = j

IsPrefix(p, q) == Len(p) <= Len(q) /\ SubSeq(q, 1, Len(p)) = p

Adds == { k \in 1..Len(hist) : hist[k].op = "add" }

\* C14: every step of Apply, TrackFile and AddTrackingPath leaves the paths
\* already in the tracking list where they were, in their order, adds at the
\* end only, never adds a path twice, and adding a path already present
\* changes nothing.
C14_TrackingListAppendOnly ==
    [][/\ IsPrefix(tracking, tracking')
       /\ NoDuplicates(tracking')
       /\ \A path \in ListPaths :
             (/\ Len(hist') = Len(hist) + 1
              /\ hist'[Len(hist')].op = "add"
              /\ hist'[Len(hist')].path = path
              /\ path \in Range(tracking))
             => tracking' = tracking]_vars

\* A path already in a list of two was added again.
C14_Witness ==
    \E k \in Adds :
        /\ Len(hist[k].preTracking) >= 2
        /\ hist[k].path \in Range(hist[k].preTracking)
        /\ hist[k].postTracking = hist[k].preTracking

----------------------------------------------------------------------------
(* Properties of ProgressIndicator *)

\* C17: a call of Stop made after Start returned does return, under every
\* interleaving with the animation goroutine, and once it has returned the
\* animation goroutine has terminated.
C17_StopCompletes ==
    /\ (ind.caller = "stop") ~> (ind.caller = "stopped")
    /\ [](ind.caller = "stopped" => ind.anim = "exited")

\* Stop is blocked in its send on p.done and no goroutine is left to receive.
StopBlockedForever == ind.caller = "send" /\ ind.anim = "exited"

----------------------------------------------------------------------------
(* Further properties of resolution, tracking and Apply *)

\* Some file other than the template file holds these bytes.
HeldElsewhere(f, path, node) ==
    \E p \in DOMAIN f : p # path /\ f[p].k = "file" /\ f[p].c = node.c

\* C21: when resolveKeepLocal has overwritten the bytes of an existing
\* template file, a backup holding the template file's prior bytes exists.
C21_TemplateBackedUp ==
    \A k \in Resolves : \A at \in Attempts(hist[k]) :
        LET c == hist[k].conflicts[at.index]
        IN  (/\ hist[k].strategy = "keep-local"
             /\ at.before[c.RemotePath].k = "file"
             /\ at.after[c.RemotePath] # at.before[c.RemotePath])
            => HeldElsewhere(at.after, c.RemotePath, at.before[c.RemotePath])

\* C22: TrackFile of a source that is a symlink to an existing file other
\* than the destination, the destination absent or overwrite given, returns
\* nil, leaves a timestamped backup of the source and leaves the source a
\* symlink to the destination.
C22_TrackSymlinkElsewhere ==
    \A k \in Tracks :
        LET h == hist[k]
        IN  (/\ h.pre[h.source].k = "link"
             /\ h.pre[h.source].t # h.destination
             /\ Stat(h.pre, h.source).k = "file"
             /\ (h.overwrite \/ ~DestinationExists(h.pre, h.destination)))
            => /\ ~h.err
               /\ h.post[h.source] = Link(h.destination)
               /\ \E n \in 0..MaxClock :
                     /\ h.pre[BackupPath(h.source, n)].k = "none"
                     /\ h.post[BackupPath(h.source, n)].k # "none"

\* C27: when Apply has returned without error and without a declined prompt,
\* detectConflicts on the same template root returns no record.
C27_ApplyLeavesNoConflict ==
    \A k \in Applies :
        (~hist[k].err /\ hist[k].declined = {} /\ ~hist[k].crashed)
        => detectConflicts(hist[k].post, hist[k].environment) = <<>>

\* The template files of the scanned tiers that the scan maps to the live path.
MappedTo(f, current, live) ==
    { p \in Range(allPaths(f, current)) : scanTarget(p)[1] /\ scanTarget(p)[2] = live }

TierOf(p) == CHOOSE dir \in {CommonDir, MachineDir, EnvDir(EnvName), EnvDir("default")} :
                HasPrefix(p, dir)

\* C28: after ResolveConflicts with keep-local or keep-remote has processed
\* every record without error, a scan reports no record for a live path that
\* was resolved, and each such live path is a symlink to the entry of the
\* highest tier mapped to it.
C28_ResolutionConverges ==
    \A k \in Resolves :
        (/\ hist[k].strategy \in {"keep-local", "keep-remote"}
         /\ \A at \in Attempts(hist[k]) : ~at.err)
        => \A i \in 1..Len(hist[k].conflicts) :
              LET live == hist[k].conflicts[i].LocalPath
              IN  /\ RecordsFor(detectConflicts(hist[k].post, hist[k].current), live) = {}
                  /\ \E p \in MappedTo(hist[k].post, hist[k].current, live) :
                        /\ Linked(hist[k].post, live, p)
                        /\ \A q \in MappedTo(hist[k].post, hist[k].current, live) :
                              TierRank(TierOf(q)) <= TierRank(TierOf(p))

\* Claim C23: Apply leaves the live path of a reserved entry (tier-relative name
\* with the prefix ".git", or README.md at the tier root) alone, and the scan
\* reports no record for a reserved entry.
ReservedTarget(p) == Join(Home, Rel(CommonDir, p))

C23_ApplySkipsReserved ==
    \A k \in Applies : \A p \in ReservedFiles :
        /\ hist[k].post[ReservedTarget(p)] = hist[k].pre[ReservedTarget(p)]
        /\ Rel(Home, ReservedTarget(p)) \notin Range(hist[k].postTracking)

C23_ReservedSkipped ==
    /\ C23_ApplySkipsReserved
    /\ \A k \in Scans : \A i \in 1..Len(hist[k].conflicts) :
           hist[k].conflicts[i].RemotePath \notin ReservedFiles

----------------------------------------------------------------------------
(* Properties of merge, backup-both and the interactive prompt *)

\* A record of the call in progress has been handled; call.last describes it.
Attempted == pc = "dialog" /\ call.last.choice # "none"

Record == call.conflicts[call.last.index]

\* The last record was handled by the strategy, chosen directly or at the prompt.
Handled(strategy, choice) ==
    /\ Attempted
    /\ \/ call.strategy = strategy /\ call.last.choice = ""
       \/ call.strategy = "interactive" /\ call.last.choice = choice

C25_MergeTempRemoved ==
    Handled("merge", "3") => call.last.after[MergedPath].k = "none"

\* A merge that fails after the tool has run: the copy back finds no file.
C25_Witness ==
    /\ Handled("merge", "3")
    /\ call.last.found /\ call.last.run = "unlinks"
    /\ call.last.err

\* Claim C26: resolveInteractive returns exactly on the choices 1, 2, 3, 6, 7
\* and on a failed read; after 4, 5 and any other line it prompts again for
\* the same record; choice 7 returns no error and changes nothing.
C26_PromptLoop ==
    (Attempted /\ call.strategy = "interactive") =>
        /\ call.last.returned <=> call.last.choice \in {"1", "2", "3", "6", "7", "eof"}
        /\ ~call.last.returned <=> call.i = call.last.index
        /\ call.last.choice = "7" =>
               ~call.last.err /\ call.last.after = call.last.before

\* The prompt was shown again, and the loop then ended on a choice.
C26_Witness ==
    /\ Attempted /\ call.strategy = "interactive"
    /\ call.prompts > 0
    /\ call.last.returned
    /\ call.last.choice = "7"

\* Claim C29: resolving one record, with any strategy, leaves the bytes of every
\* existing template file other than the record's RemotePath as they were.
C29_OtherTemplatesKept ==
    Attempted =>
        \A p \in TemplateFiles \ {Record.RemotePath} :
            call.last.before[p].k = "file" => call.last.after[p] = call.last.before[p]

----------------------------------------------------------------------------
(* Properties of ProgressIndicator under repeated calls *)

\* Claim C30: whatever Start and Stop calls came before, once a Stop has
\* returned the indicator is not active and no animation goroutine runs.
C30_StopLeavesIdle ==
    ind.caller = "stopped" => ~ind.active /\ ind.anim \in {"unborn", "exited"}

====
